---- MODULE Spec2Model ----
(***************************************************************************)
(* A model of the ibis node framework (ibis/common/annotations.py) and of  *)
(* its translation rules (backends/polars/compiler.py and                  *)
(* backends/base/sql/registry/string.py).                                  *)
(*                                                                         *)
(* Values are sequences of strings so that any two of them can be          *)
(* compared: a scalar x is <<"s", x>>, a tuple (x, y) is <<"t", x, y>>,    *)
(* and the marker inspect.Parameter.empty is <<"EMPTY">>.                  *)
(***************************************************************************)
EXTENDS Integers, Sequences, FiniteSets, TLC

VARIABLES
    stage, base, last,      \* class definition: Signature.merge
    pc, sig, call, res,     \* node construction: Signature.validate
    unb, res2,              \* node copy: Signature.unbind, then validate
    op, expr                \* translation: the node given and the outcome

mergeVars == <<stage, base, last>>

nodeVars == <<pc, sig, call, res, unb, res2>>

transVars == <<op, expr>>

vars == <<stage, base, last, pc, sig, call, res, unb, res2, op, expr>>

(***************************************************************************)
(* Bounds of the model.                                                    *)
(***************************************************************************)
\* the number of fields one class body declares
MaxDecl == 2

\* the number of positional arguments of one call
MaxArgs == 2

\* the height of an expression tree above its leaves
MaxDepth == 2

\* the largest value of a literal start or length
MaxLit == 3

\* the number of predicates of a join, a selection or an aggregation
MaxPreds == 2

\* the number of case/result pairs of a case expression
MaxCases == 2

\* the number of selections, of sort keys, of grouping keys and of metrics
MaxSel == 2

\* the field names of a base class, and those a class body may declare
BaseNames == {"a", "b"}

Names == {"a", "b", "c", "d"}

(***************************************************************************)
(* annotations.py: markers, Argument, Parameter                            *)
(***************************************************************************)
EMPTY == <<"EMPTY">>

NoneV == <<"s", "None">>

VAR_POSITIONAL == "VAR_POSITIONAL"

POSITIONAL_OR_KEYWORD == "POSITIONAL_OR_KEYWORD"

KEYWORD_ONLY == "KEYWORD_ONLY"

\* inspect._ParameterKind is an IntEnum; Signature.__init__ compares kinds
KindRank(kind) ==
    CASE kind = POSITIONAL_OR_KEYWORD -> 1
      [] kind = VAR_POSITIONAL -> 2
      [] kind = KEYWORD_ONLY -> 3

\* a validator object: wrap is "nil" (validator=None), "plain", "option" or
\* "tuple_of"; inner names the wrapped validator; dflt is option's default
Validator(wrap, inner, dflt) == [wrap |-> wrap, inner |-> inner, dflt |-> dflt]

NilValidator == Validator("nil", "noop", NoneV)

\* Argument.__init__(kind, default, validator)
Argument(kind, default, validator) ==
    [kind |-> kind, default |-> default, validator |-> validator]

\* Argument.replace(kind=...)
ReplaceKind(annot, kind) == Argument(kind, annot.default, annot.validator)

\* Argument.mandatory(validator)
ArgMandatory(validator) == Argument(POSITIONAL_OR_KEYWORD, EMPTY, validator)

\* Argument.mandatory_keyword(validator)
ArgMandatoryKeyword(validator) == Argument(KEYWORD_ONLY, EMPTY, validator)

\* Argument.default(default, validator)
ArgDefault(default, validator) == Argument(POSITIONAL_OR_KEYWORD, default, validator)

\* Argument.optional(validator, default): inner is "noop" when validator is None
ArgOptional(inner, dflt) ==
    Argument(POSITIONAL_OR_KEYWORD, NoneV, Validator("option", inner, dflt))

\* Argument.variadic(validator): inner is "noop" when validator is None
ArgVariadic(inner) == Argument(VAR_POSITIONAL, EMPTY, Validator("tuple_of", inner, NoneV))

\* Parameter.__init__(name, annotation)
Parameter(name, annotation) ==
    [name |-> name, kind |-> annotation.kind, default |-> annotation.default,
     annotation |-> annotation.validator]

(***************************************************************************)
(* inspect.Signature.__init__, which Signature inherits and merge calls:   *)
(* the parameter list is checked and a ValueError raised when ill-ordered. *)
(***************************************************************************)
RECURSIVE CheckParameters(_, _, _, _, _)
CheckParameters(parameters, i, top_kind, seen_default, seen) ==
    IF i > Len(parameters) THEN "ok"
    ELSE LET param == parameters[i]
             rank == KindRank(param.kind)
             positional == param.kind = POSITIONAL_OR_KEYWORD
         IN  IF rank < top_kind THEN "ValueError"
             ELSE IF positional /\ param.default = EMPTY /\ seen_default
                  THEN "ValueError"
             ELSE IF param.name \in seen THEN "ValueError"
             ELSE CheckParameters(parameters, i + 1,
                                  IF rank > top_kind THEN rank ELSE top_kind,
                                  seen_default \/ (positional /\ param.default # EMPTY),
                                  seen \cup {param.name})

SignatureInit(parameters) ==
    LET status == CheckParameters(parameters, 1, 0, FALSE, {})
    IN  [status |-> status,
         parameters |-> IF status = "ok" THEN parameters ELSE <<>>]

(***************************************************************************)
(* Signature.merge                                                         *)
(***************************************************************************)
DictSetDefault(params, param) ==
    IF \E i \in DOMAIN params : params[i].name = param.name
    THEN params
    ELSE Append(params, param)

\* params[name] = param on an insertion-ordered dict: an existing key keeps
\* its place, a new key goes last
DictSet(params, param) ==
    IF \E i \in DOMAIN params : params[i].name = param.name
    THEN [i \in DOMAIN params |->
            IF params[i].name = param.name THEN param ELSE params[i]]
    ELSE Append(params, param)

RECURSIVE Flatten(_)
Flatten(signatures) ==
    IF signatures = <<>> THEN <<>>
    ELSE Head(signatures) \o Flatten(Tail(signatures))

\* the first loop: every parameter of every parent, in order
RECURSIVE InheritLoop(_, _)
InheritLoop(flat, acc) ==
    IF flat = <<>> THEN acc
    ELSE LET param == Head(flat)
         IN  InheritLoop(Tail(flat),
                 [params |-> DictSet(acc.params, param),
                  inherited |-> acc.inherited \cup {param.name},
                  is_variadic |-> acc.is_variadic \/ param.kind = VAR_POSITIONAL])

ForcedKindNever(annot, is_variadic) == annot

\* the kind a declared field gets once a variadic one has been seen
ForcedKind(annot, is_variadic) ==
    IF is_variadic THEN ReplaceKind(annot, KEYWORD_ONLY) ELSE annot

\* the second loop: the fields the class body declares, in order
RECURSIVE AnnotLoop(_, _)
AnnotLoop(annotations, acc) ==
    IF annotations = <<>> THEN acc
    ELSE LET name == Head(annotations).name
             annot == ForcedKind(Head(annotations).annot, acc.is_variadic)
             param == Parameter(name, annot)
         IN  AnnotLoop(Tail(annotations),
                 [params |-> DictSet(acc.params, param),
                  inherited |-> acc.inherited,
                  is_variadic |-> acc.is_variadic \/ param.kind = VAR_POSITIONAL])

MergeOrderInheritedFirst(inherited_args, new_args, new_kwargs, inherited_kwargs) ==
    inherited_args \o new_args \o inherited_kwargs \o new_kwargs

\* the order of the list handed to the constructor
MergeOrder(inherited_args, new_args, new_kwargs, inherited_kwargs) ==
    inherited_args \o new_args \o new_kwargs \o inherited_kwargs

\* the third loop and the concatenation
Reorder(params, inherited) ==
    LET IsInhArg(p) == p.name \in inherited /\ p.default = EMPTY
        IsInhKw(p) == p.name \in inherited /\ p.default # EMPTY
        IsNewArg(p) == p.name \notin inherited /\ p.default = EMPTY
        IsNewKw(p) == p.name \notin inherited /\ p.default # EMPTY
    IN  MergeOrder(SelectSeq(params, IsInhArg), SelectSeq(params, IsNewArg),
                   SelectSeq(params, IsNewKw), SelectSeq(params, IsInhKw))

\* the list merge hands to the constructor
MergeList(signatures, annotations) ==
    LET a1 == InheritLoop(Flatten(signatures),
                          [params |-> <<>>, inherited |-> {}, is_variadic |-> FALSE])
        a2 == AnnotLoop(annotations, a1)
    IN  Reorder(a2.params, a2.inherited)

Merge(signatures, annotations) == SignatureInit(MergeList(signatures, annotations))

(***************************************************************************)
(* Validators (ibis.common.validators): option, tuple_of and two inner     *)
(* validators, "noop" (annotations._noop) and "any", which coerces raw to  *)
(* ok and rejects everything else.                                         *)
(***************************************************************************)
Scalar(x) == <<"s", x>>

IsTuple(value) == Head(value) = "t"

\* the tuple of a sequence of scalar values
TupleOf(values) == <<"t">> \o [i \in DOMAIN values |-> values[i][2]]

\* the elements of a tuple, as scalar values
Elements(value) == [i \in 1..(Len(value) - 1) |-> Scalar(value[i + 1])]

Rejected == [ok |-> FALSE, value |-> <<"rejected">>]

Accepted(value) == [ok |-> TRUE, value |-> value]

\* an inner validator applied to arg, with the fields validated so far
Inner(inner, arg, this) ==
    CASE inner = "noop" -> Accepted(arg)
      [] inner = "any" ->
           IF arg \in {Scalar("raw"), Scalar("ok")} THEN Accepted(Scalar("ok"))
           ELSE Rejected

\* validator(arg, this=this)
CallValidator(validator, arg, this) ==
    CASE validator.wrap = "plain" -> Inner(validator.inner, arg, this)
      [] validator.wrap = "option" ->
           IF arg = NoneV
           THEN (IF validator.dflt = NoneV THEN Accepted(NoneV)
                 ELSE Inner(validator.inner, validator.dflt, this))
           ELSE Inner(validator.inner, arg, this)
      [] validator.wrap = "tuple_of" ->
           IF ~IsTuple(arg) THEN Rejected
           ELSE LET each == [i \in DOMAIN Elements(arg) |->
                                Inner(validator.inner, Elements(arg)[i], this)]
                IN  IF \E i \in DOMAIN each : ~each[i].ok THEN Rejected
                    ELSE Accepted(TupleOf([i \in DOMAIN each |-> each[i].value]))

\* Parameter.validate(arg, this=this)
ParameterValidate(param, arg, this) ==
    IF param.annotation.wrap = "nil" THEN Accepted(arg)
    ELSE CallValidator(param.annotation, arg, this)

(***************************************************************************)
(* Ordered dicts: sequences of [name, value] with distinct names           *)
(***************************************************************************)
Has(dict, name) == \E i \in DOMAIN dict : dict[i].name = name

Get(dict, name) == dict[CHOOSE i \in DOMAIN dict : dict[i].name = name].value

Put(dict, name, value) == Append(dict, [name |-> name, value |-> value])

Pop(dict, name) == SelectSeq(dict, LAMBDA e : e.name # name)

Values(dict) == [i \in DOMAIN dict |-> dict[i].value]

(***************************************************************************)
(* inspect.Signature.bind and BoundArguments.apply_defaults, which         *)
(* Signature.validate calls                                                *)
(***************************************************************************)
NoField == "<none>"

BindError(field) ==
    [status |-> "TypeError", field |-> field, arguments |-> <<>>]

\* the second loop of bind: the parameters from j on take keyword arguments
RECURSIVE BindKeywords(_, _, _, _)
BindKeywords(parameters, j, kwargs, arguments) ==
    IF j > Len(parameters)
    THEN (IF kwargs # <<>> THEN BindError(Head(kwargs).name)
          ELSE [status |-> "ok", field |-> NoField, arguments |-> arguments])
    ELSE LET param == parameters[j]
         IN  IF param.kind = VAR_POSITIONAL
             THEN BindKeywords(parameters, j + 1, kwargs, arguments)
             ELSE IF Has(kwargs, param.name)
             THEN BindKeywords(parameters, j + 1, Pop(kwargs, param.name),
                               Put(arguments, param.name, Get(kwargs, param.name)))
             ELSE IF param.default = EMPTY THEN BindError(param.name)
             ELSE BindKeywords(parameters, j + 1, kwargs, arguments)

\* the first loop of bind: positional argument i meets parameter j
RECURSIVE BindPositional(_, _, _, _, _)
BindPositional(parameters, args, i, kwargs, arguments) ==
    IF i > Len(args)
    THEN \* no more positional arguments: look at the next parameter
         IF i > Len(parameters) THEN BindKeywords(parameters, i, kwargs, arguments)
         ELSE LET param == parameters[i]
              IN  IF param.kind = VAR_POSITIONAL
                  THEN BindKeywords(parameters, i + 1, kwargs, arguments)
                  ELSE IF Has(kwargs, param.name) \/ param.default # EMPTY
                  THEN BindKeywords(parameters, i, kwargs, arguments)
                  ELSE BindError(param.name)
    ELSE IF i > Len(parameters) THEN BindError(NoField)
    ELSE LET param == parameters[i]
         IN  IF param.kind = KEYWORD_ONLY THEN BindError(NoField)
             ELSE IF param.kind = VAR_POSITIONAL
             THEN BindKeywords(parameters, i + 1, kwargs,
                      Put(arguments, param.name, TupleOf(SubSeq(args, i, Len(args)))))
             ELSE IF Has(kwargs, param.name) THEN BindError(param.name)
             ELSE BindPositional(parameters, args, i + 1, kwargs,
                                 Put(arguments, param.name, args[i]))

Bind(parameters, args, kwargs) == BindPositional(parameters, args, 1, kwargs, <<>>)

\* the value apply_defaults gives a parameter that bind left out
DefaultOf(param) ==
    IF param.default # EMPTY THEN param.default ELSE TupleOf(<<>>)

\* apply_defaults: every parameter, in signature order
ApplyDefaults(parameters, arguments) ==
    [i \in DOMAIN parameters |->
        [name |-> parameters[i].name,
         value |-> IF Has(arguments, parameters[i].name)
                   THEN Get(arguments, parameters[i].name)
                   ELSE DefaultOf(parameters[i])]]

(***************************************************************************)
(* Signature.validate and Signature.unbind                                 *)
(***************************************************************************)
ContextEmpty(this) == <<>>

\* the context a validator is called with: the DotDict filled so far
Context(this) == this

\* the loop of validate; trace lists the validator calls made
RECURSIVE ValidateLoop(_, _, _, _, _)
ValidateLoop(parameters, arguments, i, this, trace) ==
    IF i > Len(arguments)
    THEN [status |-> "ok", field |-> NoField, this |-> this, trace |-> trace]
    ELSE LET name == arguments[i].name
             param == parameters[CHOOSE j \in DOMAIN parameters :
                                    parameters[j].name = name]
             out == ParameterValidate(param, arguments[i].value, Context(this))
             called == Append(trace, [name |-> name, arg |-> arguments[i].value,
                                      this |-> Context(this)])
         IN  IF ~out.ok
             THEN [status |-> "ValidatorError", field |-> NoField,
                   this |-> <<>>, trace |-> called]
             ELSE ValidateLoop(parameters, arguments, i + 1,
                               Put(this, name, out.value), called)

\* Signature.validate(*args, **kwargs): the field map, or the error raised
\* with the field its message names
Validate(parameters, args, kwargs) ==
    LET bound == Bind(parameters, args, kwargs)
    IN  IF bound.status # "ok"
        THEN [status |-> bound.status, field |-> bound.field,
              this |-> <<>>, trace |-> <<>>]
        ELSE ValidateLoop(parameters, ApplyDefaults(parameters, bound.arguments),
                          1, <<>>, <<>>)

UnbindVariadicKeepKeywords(acc, value) ==
    [args |-> Elements(value), kwargs |-> acc.kwargs]

\* the branch of unbind's loop for a variadic parameter
UnbindVariadic(acc, value) ==
    [args |-> Values(acc.kwargs) \o Elements(value), kwargs |-> <<>>]

RECURSIVE UnbindLoop(_, _, _, _)
UnbindLoop(parameters, this, i, acc) ==
    IF i > Len(parameters) THEN acc
    ELSE LET param == parameters[i]
             value == Get(this, param.name)
         IN  UnbindLoop(parameters, this, i + 1,
                 IF param.kind = VAR_POSITIONAL THEN UnbindVariadic(acc, value)
                 ELSE [args |-> acc.args,
                       kwargs |-> Put(acc.kwargs, param.name, value)])

\* Signature.unbind(this)
Unbind(parameters, this) ==
    UnbindLoop(parameters, this, 1, [args |-> <<>>, kwargs |-> <<>>])

(***************************************************************************)
(* The node type hierarchy: operations/core.py, and the operation classes  *)
(* the polars rules are registered for                                     *)
(***************************************************************************)
\* class statements of operations/core.py: the bases of each class
CoreBases ==
    [Node |-> <<>>, Named |-> <<>>, Value |-> <<"Node", "Named">>,
     Alias |-> <<"Value">>, Unary |-> <<"Value">>, Binary |-> <<"Value">>,
     NodeList |-> <<"Node">>]

\* class statements of the other operation modules
OpBases ==
    [Literal |-> <<"Value">>, TableColumn |-> <<"Value">>, Hash |-> <<"Value">>,
     Abs |-> <<"Unary">>, Negate |-> <<"Unary">>, TypeOf |-> <<"Unary">>,
     StringUnary |-> <<"Unary">>, Strip |-> <<"StringUnary">>,
     Uppercase |-> <<"StringUnary">>, StringAscii |-> <<"StringUnary">>,
     Capitalize |-> <<"StringUnary">>, StringLength |-> <<"StringUnary">>,
     Comparison |-> <<"Binary">>, Equals |-> <<"Comparison">>,
     Add |-> <<"Binary">>, IdenticalTo |-> <<"Binary">>,
     Less |-> <<"Comparison">>,
     TableNode |-> <<"Node">>, DatabaseTable |-> <<"TableNode">>,
     Join |-> <<"TableNode">>, InnerJoin |-> <<"Join">>, LeftJoin |-> <<"Join">>,
     RightJoin |-> <<"Join">>, OuterJoin |-> <<"Join">>,
     LeftAntiJoin |-> <<"Join">>, LeftSemiJoin |-> <<"Join">>,
     SortKey |-> <<"Node">>, Selection |-> <<"TableNode">>,
     Reduction |-> <<"Value">>, Sum |-> <<"Reduction">>, Count |-> <<"Reduction">>,
     Aggregation |-> <<"TableNode">>,
     SimpleCase |-> <<"Value">>, SearchedCase |-> <<"Value">>,
     Substring |-> <<"Value">>, LPad |-> <<"Value">>,
     DropNa |-> <<"TableNode">>, Union |-> <<"TableNode">>,
     StartsWith |-> <<"Value">>, EndsWith |-> <<"Value">>]

Bases(type) == IF type \in DOMAIN CoreBases THEN CoreBases[type] ELSE OpBases[type]

Types == DOMAIN CoreBases \cup DOMAIN OpBases

\* s without the elements of t
Without(s, t) == SelectSeq(s, LAMBDA x : \A i \in DOMAIN t : t[i] # x)

\* type.__mro__: the class, then its bases' linearizations, a class shared
\* by two of them kept at its last place
RECURSIVE Mro(_)
RECURSIVE MroOfBases(_)
MroOfBases(bases) ==
    IF bases = <<>> THEN <<>>
    ELSE LET rest == MroOfBases(Tail(bases))
         IN  Without(Mro(Head(bases)), rest) \o rest

Mro(type) == <<type>> \o MroOfBases(Bases(type))

(***************************************************************************)
(* polars/compiler.py: the rule table of translate                         *)
(***************************************************************************)
\* @translate.register(ops.X) def rule(op): the rule registered for each type
Registry ==
    [Node |-> "operation", Alias |-> "alias", Literal |-> "literal",
     TableColumn |-> "column", StringLength |-> "string_length",
     StringUnary |-> "string_unary", Capitalize |-> "captalize",
     Unary |-> "unary", Comparison |-> "comparison", Binary |-> "binop",
     DatabaseTable |-> "table", Join |-> "join", SortKey |-> "sort_key",
     Selection |-> "selection", Reduction |-> "reduction",
     Aggregation |-> "aggregation", SimpleCase |-> "simple_case",
     SearchedCase |-> "searched_case", Substring |-> "string_substrig",
     LPad |-> "lpad", DropNa |-> "dropna",
     StartsWith |-> "string_startswith", EndsWith |-> "string_endswith"]

FirstRegisteredFromRoot(mro) ==
    LET hits == SelectSeq(mro, LAMBDA t : t \in DOMAIN Registry)
    IN  IF hits = <<>> THEN "translate" ELSE Registry[hits[Len(hits)]]

\* functools.singledispatch: the rule of the first class of the MRO that
\* has one, and the undecorated translate when none has
FirstRegistered(mro) ==
    LET hits == SelectSeq(mro, LAMBDA t : t \in DOMAIN Registry)
    IN  IF hits = <<>> THEN "translate" ELSE Registry[hits[1]]

Dispatch(type) == FirstRegistered(Mro(type))

\* the lookup tables of the table-driven rules
StringUnaryTable == [Strip |-> "strip", Uppercase |-> "to_uppercase"]

UnaryTable == [Abs |-> "abs", Negate |-> "__neg__"]

ComparisonTable == [Equals |-> "==", Less |-> "<"]

BinopTable == [Add |-> "+"]

ReductionTable == [Sum |-> "sum", Count |-> "count"]

\* node is None
IsNone(node) == node.type = "NoneType"

Digits == <<"0", "1", "2", "3", "4", "5", "6", "7", "8", "9">>

\* str(n) of a natural number
RECURSIVE Str(_)
Str(n) == IF n < 10 THEN Digits[n + 1] ELSE Str(n \div 10) \o Digits[(n % 10) + 1]

\* str(type(op)), as a message shows it
ClassRepr(type) == <<"<class 'ibis.expr.operations.", type, "'>">>

Raise(rule, error, message) ==
    [status |-> error, rule |-> rule, value |-> <<>>, message |-> message]

Return(rule, value) ==
    [status |-> "ok", rule |-> rule, value |-> value, message |-> <<>>]

\* an error raised by translate(child) inside a rule leaves the rule
Propagate(rule, raised) == [raised EXCEPT !.rule = rule]

OperationMessageBare(type) == <<"No translation rule">>

\* the message of operation's OperationNotDefinedError
OperationMessage(type) == <<"No translation rule for ">> \o ClassRepr(type)

\* d[type(op)] in a table-driven rule, then the rule's rendering
Lookup(rule, table, type, before, after) ==
    IF type \in DOMAIN table THEN Return(rule, before \o <<table[type]>> \o after)
    ELSE Raise(rule, "KeyError", ClassRepr(type))

\* translate(op): the rule dispatch selects, applied to the node; a rule
\* translates the children it needs, and an error raised below propagates
RECURSIVE Translate(_)
Translate(node) ==
    LET rule == Dispatch(node.type)
        arg == Translate(node.args[1])
        right == Translate(node.args[2])
    IN  CASE rule = "translate" -> Raise(rule, "NotImplementedError", <<node.type>>)
          [] rule = "operation" ->
               Raise(rule, "OperationNotDefinedError", OperationMessage(node.type))
          [] rule = "column" -> Return(rule, <<"pl.col(", node.name, ")">>)
          [] rule = "literal" -> Return(rule, <<"pl.lit(", Str(node.value), ")">>)
          [] rule = "alias" ->
               IF arg.status # "ok" THEN Propagate(rule, arg)
               ELSE Return(rule, arg.value \o <<".alias(", node.name, ")">>)
          [] rule = "string_length" ->
               IF arg.status # "ok" THEN Propagate(rule, arg)
               ELSE Return(rule, arg.value \o <<".str.lengths()", ".cast(", "typ", ")">>)
          [] rule = "string_unary" ->
               IF arg.status # "ok" THEN Propagate(rule, arg)
               ELSE Lookup(rule, StringUnaryTable, node.type,
                           arg.value \o <<".str.">>, <<"()">>)
          [] rule = "captalize" ->
               IF arg.status # "ok" THEN Propagate(rule, arg)
               ELSE Return(rule, arg.value \o <<".apply(", "capitalize", ")">>)
          [] rule = "unary" ->
               IF arg.status # "ok" THEN Propagate(rule, arg)
               ELSE Lookup(rule, UnaryTable, node.type,
                           arg.value \o <<".">>, <<"()">>)
          [] rule = "comparison" ->
               IF arg.status # "ok" THEN Propagate(rule, arg)
               ELSE IF right.status # "ok" THEN Propagate(rule, right)
               ELSE Lookup(rule, ComparisonTable, node.type,
                           <<"(">> \o arg.value, right.value \o <<")">>)
          [] rule = "reduction" ->
               LET where == Translate(node.args[2])
                   method == Lookup(rule, ReductionTable, node.type,
                                    arg.value \o <<".">>, <<"()">>)
               IN  IF arg.status # "ok" THEN Propagate(rule, arg)
                   ELSE IF node.type \notin DOMAIN ReductionTable THEN method
                   ELSE IF IsNone(node.args[2]) THEN method
                   ELSE IF where.status # "ok" THEN Propagate(rule, where)
                   ELSE Lookup(rule, ReductionTable, node.type,
                               arg.value \o <<".filter(">> \o where.value \o <<").">>,
                               <<"()">>)
          [] rule = "binop" ->
               IF arg.status # "ok" THEN Propagate(rule, arg)
               ELSE IF right.status # "ok" THEN Propagate(rule, right)
               ELSE Lookup(rule, BinopTable, node.type,
                           <<"(">> \o arg.value, right.value \o <<")">>)

(***************************************************************************)
(* Expression trees: the inputs of translate                               *)
(***************************************************************************)
\* a node: its type, its name and value fields where it has them, and its
\* child fields
MakeNode(type, name, value, args) ==
    [type |-> type, name |-> name, value |-> value, args |-> args]

TableColumn(name) == MakeNode("TableColumn", name, 0, <<>>)

Literal(value) == MakeNode("Literal", "", value, <<>>)

Leaves == {TableColumn("x"), Literal(1)}

\* node types with one child field, arg
OneChildTypes ==
    {"Abs", "Negate", "TypeOf", "Strip", "Uppercase", "StringAscii",
     "Capitalize", "StringLength", "Hash", "Alias"}

\* node types with two child fields, left and right
TwoChildTypes == {"Add", "Equals", "IdenticalTo"}

RECURSIVE Depth(_)
Depth(node) == IF node.args = <<>> THEN 0 ELSE 1 + Depth(node.args[1])

NoNode == MakeNode("none", "", 0, <<>>)

NoOutcome == [status |-> "none", rule |-> "none", value |-> <<>>, message |-> <<>>]

(***************************************************************************)
(* base/sql/registry/string.py: the text rules of the 1-indexed target     *)
(***************************************************************************)
\* the None a node holds in an optional field
NoneNode == MakeNode("NoneType", "", 0, <<>>)

\* isinstance(node, ops.Literal)
IsLiteral(node) == node.type = "Literal"

\* bool(value) of an integer
Truthy(value) == value # 0

\* a rule that ends without a return statement returns None
ReturnNone(rule) ==
    [status |-> "None", rule |-> rule, value |-> "", message |-> <<>>]

\* translator.translate(node) of a column reference or an integer literal
SqlTranslate(node) == IF IsLiteral(node) THEN Str(node.value) ELSE node.name

substring(node) ==
    LET arg == node.args[1]
        start == node.args[2]
        length == node.args[3]
        arg_formatted == SqlTranslate(arg)
        start_formatted == SqlTranslate(start)
    IN  IF length = NoneNode \/ IsLiteral(length)
        THEN IF IsLiteral(length) /\ Truthy(length.value)
             THEN Return("substring",
                         "substr(" \o arg_formatted \o ", " \o start_formatted
                            \o " + 1, " \o Str(length.value) \o ")")
             ELSE Return("substring",
                         "substr(" \o arg_formatted \o ", " \o start_formatted
                            \o " + 1)")
        ELSE Return("substring",
                    "substr(" \o arg_formatted \o ", " \o start_formatted
                       \o " + 1, " \o SqlTranslate(length) \o ")")

string_find(node) ==
    LET arg_formatted == SqlTranslate(node.args[1])
        substr_formatted == SqlTranslate(node.args[2])
        start == node.args[3]
    IN  IF start # NoneNode
        THEN IF ~IsLiteral(start)
             THEN Return("string_find",
                         "locate(" \o substr_formatted \o ", " \o arg_formatted
                            \o ", " \o SqlTranslate(start) \o " + 1) - 1")
             ELSE IF Truthy(start.value)
             THEN Return("string_find",
                         "locate(" \o substr_formatted \o ", " \o arg_formatted
                            \o ", " \o Str(start.value + 1) \o ") - 1")
             ELSE ReturnNone("string_find")
        ELSE Return("string_find",
                    "locate(" \o substr_formatted \o ", " \o arg_formatted
                       \o ") - 1")

(***************************************************************************)
(* polars/compiler.py: the rules of the relations                          *)
(***************************************************************************)
\* a table of the backend: its name and its column names
DatabaseTable(name, schema) ==
    [type |-> "DatabaseTable", name |-> name, schema |-> schema]

\* isinstance(node, type)
IsInstance(node, type) == \E i \in DOMAIN Mro(node.type) : Mro(node.type)[i] = type

JoinTypes ==
    [InnerJoin |-> "inner", LeftJoin |-> "left", RightJoin |-> "right",
     OuterJoin |-> "outer", LeftAntiJoin |-> "anti", LeftSemiJoin |-> "semi"]

KeyPrepend(keys, key) == <<key>> \o keys

\* left_on.append(...), right_on.append(...)
KeyAppend(keys, key) == Append(keys, key)

\* the first error among the outcomes, in order, or their values
FirstFailure(rule, outcomes) ==
    LET failed == {i \in DOMAIN outcomes : outcomes[i].status # "ok"}
    IN  IF failed = {}
        THEN Return(rule, [i \in DOMAIN outcomes |-> outcomes[i].value])
        ELSE Propagate(rule, outcomes[CHOOSE i \in failed : \A j \in failed : i <= j])

\* one turn of the loop of join: the two sides of an equality translated,
\* or the TranslationError of another predicate
JoinPair(pred) ==
    IF IsInstance(pred, "Equals")
    THEN FirstFailure("join", <<Translate(pred.args[1]), Translate(pred.args[2])>>)
    ELSE Raise("join", "TranslationError",
               <<"Polars backend is unable to compile join predicate ",
                 "with operation type of ">> \o ClassRepr(pred.type))

\* left_on and right_on as the loop of join appends to them
RECURSIVE JoinKeys(_, _, _, _)
JoinKeys(pairs, side, i, keys) ==
    IF i > Len(pairs) THEN keys
    ELSE JoinKeys(pairs, side, i + 1, KeyAppend(keys, pairs[i][side]))

table(node) == Return("table", [rel |-> "frame", name |-> node.name,
                                columns |-> node.schema])

\* translate(node) of the source of a relation: a table of the backend, or a
\* relation with no rule
TranslateSource(node) ==
    LET rule == Dispatch(node.type)
    IN  CASE rule = "table" -> table(node)
          [] rule = "operation" ->
               Raise(rule, "OperationNotDefinedError", OperationMessage(node.type))

\* join after translate(op.left), translate(op.right) and the loop over
\* op.predicates, which stops at the first predicate that raises
JoinBody(node, left, right, pairs) ==
    LET swap == IsInstance(node, "RightJoin")
    IN  IF left.status # "ok" THEN Propagate("join", left)
        ELSE IF right.status # "ok" THEN Propagate("join", right)
        ELSE IF ~swap /\ node.type \notin DOMAIN JoinTypes
        THEN Raise("join", "KeyError", ClassRepr(node.type))
        ELSE IF pairs.status # "ok" THEN pairs
        ELSE Return("join",
                    [rel |-> "join",
                     left |-> IF swap THEN right.value ELSE left.value,
                     right |-> IF swap THEN left.value ELSE right.value,
                     left_on |-> JoinKeys(pairs.value, 1, 1, <<>>),
                     right_on |-> JoinKeys(pairs.value, 2, 1, <<>>),
                     how |-> IF swap THEN "left" ELSE JoinTypes[node.type]])

join(node) ==
    JoinBody(node, TranslateSource(node.left), TranslateSource(node.right),
             FirstFailure("join", [i \in DOMAIN node.predicates |->
                                      JoinPair(node.predicates[i])]))

\* map(translate, nodes): the renderings, or the first error raised
TranslateAll(rule, nodes) ==
    FirstFailure(rule, [i \in DOMAIN nodes |-> Translate(nodes[i])])

\* functools.reduce(operator.and_, predicates) of a non-empty list
RECURSIVE ReduceAnd(_)
ReduceAnd(predicates) ==
    IF Len(predicates) = 1 THEN predicates[1]
    ELSE <<"(">> \o ReduceAnd(SubSeq(predicates, 1, Len(predicates) - 1))
            \o <<" & ">> \o predicates[Len(predicates)] \o <<")">>

Filter(lf, predicate) == [rel |-> "filter", source |-> lf, predicate |-> predicate]

Select(lf, columns) == [rel |-> "select", source |-> lf, columns |-> columns]

Sort(lf, by, reverse) == [rel |-> "sort", source |-> lf, by |-> by, reverse |-> reverse]

\* op.sort_keys: a column name and a direction
SortKey(name, descending) ==
    [type |-> "SortKey", name |-> name, descending |-> descending]

\* a rendering as a list of one
AsList(rule, outcome) ==
    IF outcome.status # "ok" THEN Propagate(rule, outcome)
    ELSE Return(rule, <<outcome.value>>)

\* one turn of the loop of selection: the columns the element appends
SelectionArg(arg) ==
    IF IsInstance(arg, "TableNode")
    THEN TranslateAll("selection", [k \in DOMAIN arg.schema |-> TableColumn(arg.schema[k])])
    ELSE IF IsInstance(arg, "Value") THEN AsList("selection", Translate(arg))
    ELSE Raise("selection", "TranslationError",
               <<"DataFusion backend is unable to compile selection with ",
                 "operation type of ">> \o ClassRepr(arg.type))

\* the lists in order, one after the other
RECURSIVE Chain(_)
Chain(lists) == IF lists = <<>> THEN <<>> ELSE Head(lists) \o Chain(Tail(lists))

\* a list of lists made one list
Chained(outcome) ==
    IF outcome.status # "ok" THEN outcome
    ELSE [outcome EXCEPT !.value = Chain(outcome.value)]

\* the loop of selection over op.selections, which stops at the first
\* element that raises
SelectionLoop(args) ==
    Chained(FirstFailure("selection", [i \in DOMAIN args |-> SelectionArg(args[i])]))

SelectionStepsSortFirst(lf, predicates, selections, sort_keys) ==
    LET filtered == IF predicates # <<>> THEN Filter(lf, ReduceAnd(predicates)) ELSE lf
        sorted == IF sort_keys # <<>>
                  THEN Sort(filtered, [k \in DOMAIN sort_keys |-> sort_keys[k].name],
                            [k \in DOMAIN sort_keys |-> sort_keys[k].descending])
                  ELSE filtered
    IN  IF selections # <<>> THEN Select(sorted, selections) ELSE sorted

\* the steps of selection on the translated source: lf.filter, lf.select,
\* lf.sort, each under its if
SelectionSteps(lf, predicates, selections, sort_keys) ==
    LET filtered == IF predicates # <<>> THEN Filter(lf, ReduceAnd(predicates)) ELSE lf
        selected == IF selections # <<>> THEN Select(filtered, selections) ELSE filtered
    IN  IF sort_keys # <<>>
        THEN Sort(selected, [k \in DOMAIN sort_keys |-> sort_keys[k].name],
                  [k \in DOMAIN sort_keys |-> sort_keys[k].descending])
        ELSE selected

\* selection after translate(op.table), the translation of the predicates
\* and the loop over op.selections
SelectionBody(node, lf, predicates, selections) ==
    IF lf.status # "ok" THEN Propagate("selection", lf)
    ELSE IF predicates.status # "ok" THEN predicates
    ELSE IF selections.status # "ok" THEN selections
    ELSE Return("selection",
                SelectionSteps(lf.value, predicates.value, selections.value,
                               node.sort_keys))

selection(node) ==
    SelectionBody(node, TranslateSource(node.table),
                  TranslateAll("selection", node.predicates),
                  SelectionLoop(node.selections))

\* lf.groupby(group_by).agg and lf.select before they are called
BoundMethod(self, name) == [rel |-> "bound method", self |-> self, name |-> name]

GroupBy(lf, by) == [rel |-> "groupby", source |-> lf, by |-> by]

Agg(grouped, metrics) == [rel |-> "agg", source |-> grouped, metrics |-> metrics]

\* lf(metrics) of a bound method
CallMethod(method, argument) ==
    IF method.name = "agg" THEN Agg(method.self, argument)
    ELSE Select(method.self, argument)

\* lf.filter(...) under 'if op.predicates'
Filtered(lf, node, predicates) ==
    IF node.predicates # <<>> THEN Filter(lf, ReduceAnd(predicates)) ELSE lf

\* lf.groupby(group_by).agg under 'if op.by', lf.select otherwise
Reduce(lf, node, group_by) ==
    IF node.by # <<>> THEN BoundMethod(GroupBy(lf, group_by), "agg")
    ELSE BoundMethod(lf, "select")

\* aggregation after translate(op.table) and the translation of the
\* predicates, the grouping keys and the metrics
AggregationBody(node, lf, predicates, group_by, metrics) ==
    IF lf.status # "ok" THEN Propagate("aggregation", lf)
    ELSE IF predicates.status # "ok" THEN predicates
    ELSE IF group_by.status # "ok" THEN group_by
    ELSE IF node.metrics = <<>>
    THEN Return("aggregation",
                Reduce(Filtered(lf.value, node, predicates.value), node, group_by.value))
    ELSE IF metrics.status # "ok" THEN metrics
    ELSE Return("aggregation",
                CallMethod(Reduce(Filtered(lf.value, node, predicates.value), node,
                                  group_by.value),
                           metrics.value))

aggregation(node) ==
    AggregationBody(node, TranslateSource(node.table),
                    TranslateAll("aggregation", node.predicates),
                    TranslateAll("aggregation", node.by),
                    TranslateAll("aggregation", node.metrics))

\* op.subset: None, or a list of columns
NoSubset == [none |-> TRUE, columns |-> <<>>]

Subset(columns) == [none |-> FALSE, columns |-> columns]

\* lf.drop_nulls(subset), subset being None or a list of names
DropNulls(lf, none, names) ==
    [rel |-> "drop_nulls", source |-> lf, none |-> none, names |-> names]

UnsupportedHowNever(how) == FALSE

\* op.how != 'any'
UnsupportedHow(how) == how # "any"

dropna(node) ==
    LET lf == TranslateSource(node.table)
    IN  IF UnsupportedHow(node.how)
        THEN Raise("dropna", "UnsupportedArgumentError",
                   <<"Polars does not support how=", node.how, " for dropna">>)
        ELSE IF lf.status # "ok" THEN Propagate("dropna", lf)
        ELSE IF node.subset.none
        THEN Return("dropna", DropNulls(lf.value, TRUE, <<>>))
        ELSE IF Len(node.subset.columns) = 0 THEN Return("dropna", lf.value)
        ELSE Return("dropna",
                    DropNulls(lf.value, FALSE,
                              [i \in DOMAIN node.subset.columns |->
                                  node.subset.columns[i].name]))

\* translate(node) of a relation
TranslateRelation(node) ==
    LET rule == Dispatch(node.type)
    IN  CASE rule = "join" -> join(node)
          [] rule = "selection" -> selection(node)
          [] rule = "aggregation" -> aggregation(node)
          [] rule = "dropna" -> dropna(node)

(***************************************************************************)
(* polars/compiler.py: the rules of the case expressions                   *)
(***************************************************************************)
\* zip(op.cases, op.results)
Zip(cases, results) ==
    [i \in 1..(IF Len(cases) < Len(results) THEN Len(cases) ELSE Len(results)) |->
        [case |-> cases[i], result |-> results[i]]]

CaseOrderForward(pairs) == pairs

\* reversed(list(...))
CaseOrder(pairs) == [i \in DOMAIN pairs |-> pairs[Len(pairs) + 1 - i]]

\* pl.when(case).then(result).otherwise(default)
When(case, result, default) == <<"when", case, result, default>>

\* base == translate(case)
EqualTo(base_expr, case) == <<"(">> \o base_expr \o <<"==">> \o case \o <<")">>

\* the loop of simple_case (with a base) and of searched_case (without)
RECURSIVE CaseLoop(_, _, _, _, _)
CaseLoop(rule, base_expr, pairs, i, default) ==
    IF i > Len(pairs) THEN Return(rule, default)
    ELSE LET case == Translate(pairs[i].case)
             result == Translate(pairs[i].result)
         IN  IF case.status # "ok" THEN Propagate(rule, case)
             ELSE IF result.status # "ok" THEN Propagate(rule, result)
             ELSE CaseLoop(rule, base_expr, pairs, i + 1,
                           When(IF rule = "simple_case"
                                THEN EqualTo(base_expr, case.value) ELSE case.value,
                                result.value, default))

simple_case(node) ==
    LET base_expr == Translate(node.base)
        default == Translate(node.default)
    IN  IF base_expr.status # "ok" THEN Propagate("simple_case", base_expr)
        ELSE IF default.status # "ok" THEN Propagate("simple_case", default)
        ELSE CaseLoop("simple_case", base_expr.value,
                      CaseOrder(Zip(node.cases, node.results)), 1, default.value)

searched_case(node) ==
    LET default == Translate(node.default)
    IN  IF default.status # "ok" THEN Propagate("searched_case", default)
        ELSE CaseLoop("searched_case", <<>>,
                      CaseOrder(Zip(node.cases, node.results)), 1, default.value)

\* translate(node) of a case expression
TranslateCase(node) ==
    LET rule == Dispatch(node.type)
    IN  CASE rule = "simple_case" -> simple_case(node)
          [] rule = "searched_case" -> searched_case(node)

(***************************************************************************)
(* polars/compiler.py: the rules with literal-only fields                  *)
(***************************************************************************)
\* _assert_literal(op) inside a rule: returns None, or raises; the message
\* reads op.name, which None does not have
AssertLiteral(rule, node) ==
    IF IsLiteral(node) THEN Return(rule, <<>>)
    ELSE IF IsNone(node)
    THEN Raise(rule, "AttributeError",
               <<"'NoneType' object has no attribute 'name'">>)
    ELSE Raise(rule, "UnsupportedArgumentError",
               <<"Polars does not support columnar argument ", node.name>>)

string_substrig(node) ==
    LET arg == Translate(node.args[1])
        start == AssertLiteral("string_substrig", node.args[2])
        length == AssertLiteral("string_substrig", node.args[3])
    IN  IF arg.status # "ok" THEN Propagate("string_substrig", arg)
        ELSE IF start.status # "ok" THEN start
        ELSE IF length.status # "ok" THEN length
        ELSE Return("string_substrig",
                    arg.value \o <<".str.slice(", Str(node.args[2].value), ", ",
                                   Str(node.args[3].value), ")">>)

lpad(node) ==
    LET arg == Translate(node.args[1])
        length == AssertLiteral("lpad", node.args[2])
        pad == AssertLiteral("lpad", node.args[3])
    IN  IF arg.status # "ok" THEN Propagate("lpad", arg)
        ELSE IF length.status # "ok" THEN length
        ELSE IF pad.status # "ok" THEN pad
        ELSE Return("lpad",
                    arg.value \o <<".str.rjust(", Str(node.args[2].value), ", ",
                                   Str(node.args[3].value), ")">>)

\* arg.str.<method>(value) after translate(op.arg) and the literal check
StrTest(rule, node, arg, checked, method) ==
    IF arg.status # "ok" THEN Propagate(rule, arg)
    ELSE IF checked.status # "ok" THEN checked
    ELSE Return(rule, arg.value \o <<".str.", method, "(",
                                     Str(node.args[2].value), ")">>)

string_startswith(node) ==
    StrTest("string_startswith", node, Translate(node.args[1]),
            AssertLiteral("string_startswith", node.args[2]), "ends_with")

string_endswith(node) ==
    StrTest("string_endswith", node, Translate(node.args[1]),
            AssertLiteral("string_endswith", node.args[2]), "ends_with")

\* translate(node) of a string node with literal-only fields
TranslateString(node) ==
    LET rule == Dispatch(node.type)
    IN  CASE rule = "string_substrig" -> string_substrig(node)
          [] rule = "lpad" -> lpad(node)
          [] rule = "string_startswith" -> string_startswith(node)
          [] rule = "string_endswith" -> string_endswith(node)

(***************************************************************************)
(* Class definition: the inputs of Signature.merge                         *)
(***************************************************************************)
PlainOrNil(inner) == IF inner = "noop" THEN NilValidator ELSE Validator("plain", inner, NoneV)

\* the field annotations of a base class or a mixin: no validator given
BaseAnnotations ==
    {ArgMandatory(NilValidator), ArgMandatoryKeyword(NilValidator),
     ArgOptional("noop", NoneV), ArgVariadic("noop")}

\* the field annotations of a subclass: each with the validator "any"
Annotations ==
    {ArgMandatory(PlainOrNil("any")), ArgMandatoryKeyword(PlainOrNil("any")),
     ArgDefault(<<"s", "raw">>, PlainOrNil("any")), ArgVariadic("any")}

\* a class body: up to MaxDecl fields under distinct names (a Python dict)
Bodies(names, annots) ==
    {s \in UNION {[1..n -> [name : names, annot : annots]] : n \in 0..MaxDecl} :
        \A i, j \in DOMAIN s : i # j => s[i].name # s[j].name}

\* a mixin parent: the signature of a class with one field and no parents
Mixins ==
    {Merge(<<>>, <<[name |-> "b", annot |-> ArgMandatory(NilValidator)]>>).parameters,
     Merge(<<>>, <<[name |-> "c", annot |-> ArgOptional("noop", NoneV)]>>).parameters,
     Merge(<<>>, <<[name |-> "d", annot |-> ArgVariadic("noop")]>>).parameters}

NoCall ==
    [signatures |-> <<>>, annotations |-> <<>>, ordered |-> <<>>,
     status |-> "none", parameters |-> <<>>]

NoResult == [status |-> "none", field |-> NoField, this |-> <<>>, trace |-> <<>>]

NoArguments == [args |-> <<>>, kwargs |-> <<>>]

\* nothing defined, nothing constructed
InitAll ==
    /\ stage = "start"
    /\ base = <<>>
    /\ last = NoCall
    /\ pc = "start"
    /\ sig = <<>>
    /\ call = NoArguments
    /\ res = NoResult
    /\ unb = NoArguments
    /\ res2 = NoResult
    /\ op = NoNode
    /\ expr = NoOutcome

InitMerge == InitAll

\* the call merge(*signatures, **annotations), the list it builds and its
\* outcome: the signature, or the constructor's ValueError
CallMerge(signatures, annotations) ==
    LET merged == Merge(signatures, annotations)
    IN  [signatures |-> signatures, annotations |-> annotations,
         ordered |-> MergeList(signatures, annotations),
         status |-> merged.status, parameters |-> merged.parameters]

\* class Base: <body>
DefineBase ==
    /\ stage = "start"
    /\ \E annotations \in Bodies(BaseNames, BaseAnnotations) :
          /\ last' = CallMerge(<<>>, annotations)
          /\ base' = last'.parameters
          /\ stage' = IF last'.status = "ok" THEN "base" ELSE "failed"
    /\ UNCHANGED <<nodeVars, transVars>>

\* class New(Base): <body>
DefineSubclass ==
    /\ stage = "base"
    /\ \E annotations \in Bodies(Names, Annotations) :
          last' = CallMerge(<<base>>, annotations)
    /\ stage' = "child"
    /\ UNCHANGED <<base, nodeVars, transVars>>

\* class New(Base, Mixin): <body>
DefineWithMixin ==
    /\ stage = "base"
    /\ \E annotations \in Bodies(Names, Annotations) : \E m \in Mixins :
          last' = CallMerge(<<base, m>>, annotations)
    /\ stage' = "child"
    /\ UNCHANGED <<base, nodeVars, transVars>>

NextMerge == DefineBase \/ DefineSubclass \/ DefineWithMixin

SpecMerge == InitMerge /\ [][NextMerge]_vars

(***************************************************************************)
(* Node construction and copy: the inputs of validate and unbind           *)
(***************************************************************************)
\* the fields of a node type are named in declaration order
FieldNames == <<"a", "b", "c">>

\* the keywords a call may pass, in the order it passes them
Keywords == <<"a", "b", "c", "zz">>

\* the field annotations of a node type
NodeAnnotations ==
    {ArgMandatory(PlainOrNil("any")), ArgMandatoryKeyword(PlainOrNil("any")),
     ArgOptional("any", Scalar("raw")), ArgDefault(Scalar("raw"), PlainOrNil("any")),
     ArgVariadic("any")}

NodeBodies ==
    {[i \in DOMAIN f |-> [name |-> FieldNames[i], annot |-> f[i]]] :
        f \in UNION {[1..n -> NodeAnnotations] : n \in 0..Len(FieldNames)}}

PositionalValues == {Scalar("raw"), Scalar("bad")}

Absent == <<"absent">>

KeywordValues == {Absent, Scalar("raw"), NoneV, TupleOf(<<Scalar("raw")>>)}

\* the keyword arguments of a call: Keywords[i] |-> choice[i], where given
KeywordArgs(choice) ==
    LET all == [i \in DOMAIN Keywords |-> [name |-> Keywords[i], value |-> choice[i]]]
    IN  SelectSeq(all, LAMBDA e : e.value # Absent)

InitNode == InitAll

\* class NodeType(Annotable): <body>
DefineNodeType ==
    /\ pc = "start"
    /\ \E annotations \in NodeBodies :
          LET merged == Merge(<<>>, annotations)
          IN  /\ sig' = merged.parameters
              /\ pc' = IF merged.status = "ok" THEN "type" ELSE "undefined"
    /\ UNCHANGED <<call, res, unb, res2, mergeVars, transVars>>

\* NodeType(*args, **kwargs)
Construct ==
    /\ pc = "type"
    /\ \E args \in UNION {[1..n -> PositionalValues] : n \in 0..MaxArgs} :
       \E choice \in [DOMAIN Keywords -> KeywordValues] :
          /\ call' = [args |-> args, kwargs |-> KeywordArgs(choice)]
          /\ res' = Validate(sig, args, KeywordArgs(choice))
          /\ pc' = IF res'.status = "ok" THEN "node" ELSE "error"
    /\ UNCHANGED <<sig, unb, res2, mergeVars, transVars>>

\* node.copy(), first half: the arguments are rebuilt from the fields
UnbindNode ==
    /\ pc = "node"
    /\ unb' = Unbind(sig, res.this)
    /\ pc' = "unbound"
    /\ UNCHANGED <<sig, call, res, res2, mergeVars, transVars>>

\* node.copy(), second half: the node is constructed again
Rebuild ==
    /\ pc = "unbound"
    /\ res2' = Validate(sig, unb.args, unb.kwargs)
    /\ pc' = "copied"
    /\ UNCHANGED <<sig, call, res, unb, mergeVars, transVars>>

NextNode == DefineNodeType \/ Construct \/ UnbindNode \/ Rebuild

SpecNode == InitNode /\ [][NextNode]_vars

(***************************************************************************)
(* Translation of expression trees by the polars backend                   *)
(***************************************************************************)
InitPolars == InitAll

\* translate(node) of a table column or a literal
TranslateLeaf ==
    /\ \E node \in Leaves :
          /\ op' = node
          /\ expr' = Translate(node)
    /\ UNCHANGED <<mergeVars, nodeVars>>

\* translate(node) of a node built over the last expression as its arg
TranslateOneChild ==
    /\ op # NoNode
    /\ Depth(op) < MaxDepth
    /\ \E type \in OneChildTypes :
          /\ op' = MakeNode(type, "n", 0, <<op>>)
          /\ expr' = Translate(op')
    /\ UNCHANGED <<mergeVars, nodeVars>>

\* translate(node) of a node built over the last expression as its left
TranslateTwoChild ==
    /\ op # NoNode
    /\ Depth(op) < MaxDepth
    /\ \E type \in TwoChildTypes, right \in Leaves :
          /\ op' = MakeNode(type, "n", 0, <<op, right>>)
          /\ expr' = Translate(op')
    /\ UNCHANGED <<mergeVars, nodeVars>>

NextPolars == TranslateLeaf \/ TranslateOneChild \/ TranslateTwoChild

SpecPolars == InitPolars /\ [][NextPolars]_vars

(***************************************************************************)
(* Translation of string nodes by the SQL text backend                     *)
(***************************************************************************)
\* string-valued children: column references
SqlStrings == {TableColumn("s"), TableColumn("t"), TableColumn("u")}

\* 0-indexed offsets and lengths: literals and a computed column
SqlIndexes == {Literal(n) : n \in 0..MaxLit} \cup {TableColumn("i")}

InitSql == InitAll

\* substring(translator, op) of a Substring node
TranslateSubstring ==
    /\ \E arg \in SqlStrings, start \in SqlIndexes,
          length \in SqlIndexes \cup {NoneNode} :
          /\ op' = MakeNode("Substring", "", 0, <<arg, start, length>>)
          /\ expr' = substring(op')
    /\ UNCHANGED <<mergeVars, nodeVars>>

\* string_find(translator, op) of a StringFind node
TranslateStringFind ==
    /\ \E arg \in SqlStrings, substr \in SqlStrings,
          start \in SqlIndexes \cup {NoneNode} :
          /\ op' = MakeNode("StringFind", "", 0, <<arg, substr, start>>)
          /\ expr' = string_find(op')
    /\ UNCHANGED <<mergeVars, nodeVars>>

NextSql == TranslateSubstring \/ TranslateStringFind

SpecSql == InitSql /\ [][NextSql]_vars

(***************************************************************************)
(* Translation of relations by the polars backend                          *)
(***************************************************************************)
LeftTable == DatabaseTable("t1", <<"a", "b">>)

RightTable == DatabaseTable("t2", <<"c", "d">>)

\* predicates between a column of the left table and one of the right table
Predicates ==
    {MakeNode("Equals", "n", 0, <<TableColumn("a"), TableColumn("c")>>),
     MakeNode("Equals", "n", 0, <<TableColumn("b"), TableColumn("d")>>),
     MakeNode("Less", "n", 0, <<TableColumn("a"), TableColumn("c")>>)}

SeqsUpTo(S, n) == UNION {[1..k -> S] : k \in 0..n}

InitRelation == InitAll

\* translate(node) of a Join node; a behaviour is one call of translate
TranslateJoin ==
    /\ op = NoNode
    /\ \E kind \in DOMAIN JoinTypes, predicates \in SeqsUpTo(Predicates, MaxPreds) :
          /\ op' = [type |-> kind, left |-> LeftTable, right |-> RightTable,
                    predicates |-> predicates]
          /\ expr' = TranslateRelation(op')
    /\ UNCHANGED <<mergeVars, nodeVars>>

\* predicates over the columns of the table
ValuePredicates ==
    {MakeNode("Equals", "n", 0, <<TableColumn("a"), Literal(1)>>),
     MakeNode("Less", "n", 0, <<TableColumn("b"), Literal(1)>>)}

\* the elements of op.selections: a column, a relation, and a node that is
\* neither a relation nor a value
SelectionArgs == {TableColumn("a"), RightTable, SortKey("a", FALSE)}

SortKeys == {SortKey("a", FALSE), SortKey("b", TRUE)}

\* translate(node) of a Selection node
TranslateSelection ==
    /\ op = NoNode
    /\ \E predicates \in SeqsUpTo(ValuePredicates, MaxPreds),
          selections \in SeqsUpTo(SelectionArgs, MaxSel),
          sort_keys \in SeqsUpTo(SortKeys, MaxSel) :
          /\ op' = [type |-> "Selection", table |-> LeftTable,
                    predicates |-> predicates, selections |-> selections,
                    sort_keys |-> sort_keys]
          /\ expr' = TranslateRelation(op')
    /\ UNCHANGED <<mergeVars, nodeVars>>

GroupingKeys == {TableColumn("a"), TableColumn("b")}

\* reductions of a column, one of them with a where
Metrics ==
    {MakeNode("Sum", "n", 0, <<TableColumn("a"), NoneNode>>),
     MakeNode("Count", "n", 0,
              <<TableColumn("b"),
                MakeNode("Less", "n", 0, <<TableColumn("b"), Literal(1)>>)>>)}

\* translate(node) of an Aggregation node
TranslateAggregation ==
    /\ op = NoNode
    /\ \E predicates \in SeqsUpTo(ValuePredicates, MaxPreds),
          by \in SeqsUpTo(GroupingKeys, MaxSel),
          metrics \in SeqsUpTo(Metrics, MaxSel) :
          /\ op' = [type |-> "Aggregation", table |-> LeftTable,
                    predicates |-> predicates, by |-> by, metrics |-> metrics]
          /\ expr' = TranslateRelation(op')
    /\ UNCHANGED <<mergeVars, nodeVars>>

\* a relation the backend has no rule for
UnionTable == [type |-> "Union", name |-> "u", schema |-> <<"a", "b">>]

\* translate(node) of a DropNa node
TranslateDropNa ==
    /\ op = NoNode
    /\ \E source \in {LeftTable, RightTable, UnionTable}, how \in {"any", "all"},
          subset \in {NoSubset} \cup {Subset(columns) :
                                        columns \in SeqsUpTo(GroupingKeys, MaxSel)} :
          /\ op' = [type |-> "DropNa", table |-> source, how |-> how,
                    subset |-> subset]
          /\ expr' = TranslateRelation(op')
    /\ UNCHANGED <<mergeVars, nodeVars>>

NextRelation ==
    TranslateJoin \/ TranslateSelection \/ TranslateAggregation \/ TranslateDropNa

SpecRelation == InitRelation /\ [][NextRelation]_vars

(***************************************************************************)
(* Translation of case expressions by the polars backend                   *)
(***************************************************************************)
\* the base of a simple case: a column of the row
CaseBase == TableColumn("x")

CaseValues == {Literal(n) : n \in 0..MaxLit}

CaseResults == {Literal(1), Literal(2)}

CaseDefault == Literal(0)

\* the conditions of a searched case: comparisons of the column
CaseConditions ==
    {MakeNode(type, "n", 0, <<CaseBase, value>>) :
        type \in {"Equals", "Less"}, value \in CaseValues}

InitCase == InitAll

\* translate(node) of a SimpleCase node; a behaviour is one call of translate
TranslateSimpleCase ==
    /\ op = NoNode
    /\ \E n \in 0..MaxCases :
          \E cases \in [1..n -> CaseValues], results \in [1..n -> CaseResults] :
             /\ op' = [type |-> "SimpleCase", base |-> CaseBase, cases |-> cases,
                       results |-> results, default |-> CaseDefault]
             /\ expr' = TranslateCase(op')
    /\ UNCHANGED <<mergeVars, nodeVars>>

\* translate(node) of a SearchedCase node
TranslateSearchedCase ==
    /\ op = NoNode
    /\ \E n \in 0..MaxCases :
          \E cases \in [1..n -> CaseConditions], results \in [1..n -> CaseResults] :
             /\ op' = [type |-> "SearchedCase", cases |-> cases,
                       results |-> results, default |-> CaseDefault]
             /\ expr' = TranslateCase(op')
    /\ UNCHANGED <<mergeVars, nodeVars>>

NextCase == TranslateSimpleCase \/ TranslateSearchedCase

SpecCase == InitCase /\ [][NextCase]_vars

(***************************************************************************)
(* Translation of string nodes by the polars backend                       *)
(***************************************************************************)
InitString == InitAll

\* translate(node) of a Substring node, whose length is optional; a behaviour
\* is one call of translate
TranslateSubstringPolars ==
    /\ op = NoNode
    /\ \E arg \in SqlStrings, start \in SqlIndexes,
          length \in SqlIndexes \cup {NoneNode} :
          /\ op' = MakeNode("Substring", "n", 0, <<arg, start, length>>)
          /\ expr' = TranslateString(op')
    /\ UNCHANGED <<mergeVars, nodeVars>>

\* translate(node) of an LPad node
TranslateLPad ==
    /\ op = NoNode
    /\ \E arg \in SqlStrings, length \in SqlIndexes, pad \in SqlIndexes :
          /\ op' = MakeNode("LPad", "n", 0, <<arg, length, pad>>)
          /\ expr' = TranslateString(op')
    /\ UNCHANGED <<mergeVars, nodeVars>>

\* translate(node) of a StartsWith node
TranslateStartsWith ==
    /\ op = NoNode
    /\ \E arg \in SqlStrings, start \in SqlIndexes :
          /\ op' = MakeNode("StartsWith", "n", 0, <<arg, start>>)
          /\ expr' = TranslateString(op')
    /\ UNCHANGED <<mergeVars, nodeVars>>

\* translate(node) of an EndsWith node
TranslateEndsWith ==
    /\ op = NoNode
    /\ \E arg \in SqlStrings, end \in SqlIndexes :
          /\ op' = MakeNode("EndsWith", "n", 0, <<arg, end>>)
          /\ expr' = TranslateString(op')
    /\ UNCHANGED <<mergeVars, nodeVars>>

NextString ==
    \/ TranslateSubstringPolars
    \/ TranslateLPad
    \/ TranslateStartsWith
    \/ TranslateEndsWith

SpecString == InitString /\ [][NextString]_vars

(***************************************************************************)
(* Properties of Signature.merge, stated on the recorded call              *)
(***************************************************************************)
SeqNames(params) == [i \in DOMAIN params |-> params[i].name]

\* the parents' parameters in declaration order, then the declared fields
Declared == SeqNames(Flatten(last.signatures)) \o SeqNames(last.annotations)

InheritedNames == {p.name : p \in {Flatten(last.signatures)[i] : i \in DOMAIN Flatten(last.signatures)}}

DeclaredNames == {last.annotations[i].name : i \in DOMAIN last.annotations}

\* where a name is first declared
DeclPos(name) == CHOOSE i \in DOMAIN Declared :
    Declared[i] = name /\ \A j \in 1..(i - 1) : Declared[j] # name

\* 0 inherited mandatory, 1 new mandatory, 2 new optional, 3 inherited optional
OrderClass(p) ==
    IF p.name \in InheritedNames
    THEN (IF p.default = EMPTY THEN 0 ELSE 3)
    ELSE (IF p.default = EMPTY THEN 1 ELSE 2)

\* a variadic field has been declared before the k-th field of the body
VariadicBefore(k) ==
    \/ \E i \in DOMAIN Flatten(last.signatures) :
          Flatten(last.signatures)[i].kind = VAR_POSITIONAL
    \/ \E j \in 1..(k - 1) : last.annotations[j].annot.kind = VAR_POSITIONAL

BaseIsAB ==
    /\ last.signatures = <<base>>
    /\ SeqNames(base) = <<"a", "b">>
    /\ \A i \in DOMAIN base : base[i].default = EMPTY

\* C1: a signature merge returns lists the inherited mandatory fields (in
\* their declaration order), then the new mandatory, the new optional and
\* the inherited optional ones, each name once; base mandatory {a, b} plus
\* child optional {c} gives [a, b, c], and with child mandatory {d} also,
\* [a, b, d, c].
C1_MergeOrder ==
    last.status = "ok" =>
        LET ps == last.parameters
        IN  /\ {ps[i].name : i \in DOMAIN ps} = InheritedNames \cup DeclaredNames
            /\ \A i, j \in DOMAIN ps : i < j =>
                  /\ ps[i].name # ps[j].name
                  /\ OrderClass(ps[i]) <= OrderClass(ps[j])
                  /\ OrderClass(ps[i]) = OrderClass(ps[j])
                        => DeclPos(ps[i].name) < DeclPos(ps[j].name)
            /\ (BaseIsAB /\ DeclaredNames = {"c"}
                    /\ last.annotations[1].annot.default # EMPTY)
                  => SeqNames(ps) = <<"a", "b", "c">>
            /\ (BaseIsAB /\ DeclaredNames = {"c", "d"}
                    /\ \A k \in DOMAIN last.annotations :
                          (last.annotations[k].annot.default = EMPTY)
                            <=> (last.annotations[k].name = "d"))
                  => SeqNames(ps) = <<"a", "b", "d", "c">>

\* base mandatory {a, b}, child optional c declared before mandatory d
C1_Witness ==
    /\ stage = "child" /\ last.status = "ok" /\ BaseIsAB
    /\ SeqNames(last.annotations) = <<"c", "d">>
    /\ last.annotations[1].annot.default # EMPTY
    /\ last.annotations[2].annot.default = EMPTY
    /\ SeqNames(last.parameters) = <<"a", "b", "d", "c">>

\* C2: once a variadic field has been declared, by a parent or earlier in
\* the class body, every field the body adds is keyword-only in the list
\* merge builds, whatever kind it was declared with.
C2_ForcedKeywordOnly ==
    \A k \in DOMAIN last.annotations :
        VariadicBefore(k) =>
            \A i \in DOMAIN last.ordered :
                last.ordered[i].name = last.annotations[k].name
                    => last.ordered[i].kind = KEYWORD_ONLY

\* a returned signature with a field declared positional after a variadic
C2_Witness ==
    /\ last.status = "ok"
    /\ \E k \in DOMAIN last.annotations :
          /\ VariadicBefore(k)
          /\ last.annotations[k].annot.kind # KEYWORD_ONLY
          /\ \E i \in DOMAIN last.parameters :
                /\ last.parameters[i].name = last.annotations[k].name
                /\ last.parameters[i].kind = KEYWORD_ONLY

\* the parameter of the returned signature with this name
ParamOf(name) ==
    last.parameters[CHOOSE i \in DOMAIN last.parameters : last.parameters[i].name = name]

\* the k-th field of the body redeclares an inherited name
Overrides(k) == last.annotations[k].name \in InheritedNames

\* what C3 holds for every kind: one parameter per overridden name, with the
\* child's default and validator, ordered as an inherited field of the
\* child's mandatory or optional class
OverrideKept(k) ==
    LET ps == last.parameters
        decl == last.annotations[k]
        p == ParamOf(decl.name)
    IN  /\ Cardinality({i \in DOMAIN ps : ps[i].name = decl.name}) = 1
        /\ p.default = decl.annot.default
        /\ p.annotation = decl.annot.validator
        /\ \A i \in DOMAIN ps :
              ps[i].name \notin InheritedNames =>
                  \A j \in DOMAIN ps : ps[j].name = decl.name =>
                      IF decl.annot.default = EMPTY THEN j < i ELSE i < j
        /\ \A i, j \in DOMAIN ps :
              (/\ ps[i].name = decl.name
               /\ ps[j].name \in InheritedNames \ {decl.name}
               /\ (ps[j].default = EMPTY) <=> (p.default = EMPTY))
                  => ((i < j) <=> (DeclPos(decl.name) < DeclPos(ps[j].name)))

\* C3 as stated: an overriding field carries the child's kind, default and
\* validator, once, sorted by the child's mandatory or optional status at
\* its inherited position.
C3_OverrideCarriesChildKind ==
    last.status = "ok" =>
        \A k \in DOMAIN last.annotations :
            Overrides(k) =>
                /\ OverrideKept(k)
                /\ ParamOf(last.annotations[k].name).kind = last.annotations[k].annot.kind

\* C3 amended: the kind is the child's unless a variadic field was declared
\* before it, and then it is keyword-only.
C3_OverrideAmended ==
    last.status = "ok" =>
        \A k \in DOMAIN last.annotations :
            Overrides(k) =>
                /\ OverrideKept(k)
                /\ ParamOf(last.annotations[k].name).kind =
                      IF VariadicBefore(k) THEN KEYWORD_ONLY
                      ELSE last.annotations[k].annot.kind

\* an inherited mandatory field redeclared with a default, among other
\* inherited fields, in a signature merge returned
C3_Witness ==
    /\ last.status = "ok"
    /\ Cardinality(InheritedNames) >= 2
    /\ \E k \in DOMAIN last.annotations :
          /\ Overrides(k)
          /\ last.annotations[k].annot.default # EMPTY
          /\ \E i \in DOMAIN Flatten(last.signatures) :
                /\ Flatten(last.signatures)[i].name = last.annotations[k].name
                /\ Flatten(last.signatures)[i].default = EMPTY
                /\ Flatten(last.signatures)[i].annotation # last.annotations[k].annot.validator

(***************************************************************************)
(* Properties of Signature.validate and Signature.unbind                   *)
(***************************************************************************)
Constructed == pc \in {"node", "unbound", "copied"}

\* what the call gives the i-th parameter of a well-ordered signature: the
\* positional argument, the surplus positional ones for a variadic field,
\* the keyword argument, or else the default
Given(i) ==
    IF sig[i].kind = VAR_POSITIONAL
    THEN (IF i <= Len(call.args) THEN TupleOf(SubSeq(call.args, i, Len(call.args)))
          ELSE TupleOf(<<>>))
    ELSE IF sig[i].kind = POSITIONAL_OR_KEYWORD /\ i <= Len(call.args) THEN call.args[i]
    ELSE IF Has(call.kwargs, sig[i].name) THEN Get(call.kwargs, sig[i].name)
    ELSE sig[i].default

\* the call passes the i-th parameter neither by position nor by keyword
NotPassed(i) ==
    /\ ~(sig[i].kind # KEYWORD_ONLY /\ i <= Len(call.args))
    /\ ~Has(call.kwargs, sig[i].name)

\* what the field's validator returns
Validated(i, arg, this) ==
    IF sig[i].annotation.wrap = "nil" THEN arg
    ELSE CallValidator(sig[i].annotation, arg, this).value

\* C4: an accepted call yields one entry per parameter, in signature order;
\* each is the validator's output on the bound argument, or on the default
\* when the argument is absent, never the raw input of a coercing validator;
\* and each validator is called with exactly the validated values of the
\* fields before it.
C4_ValidateInOrder ==
    Constructed =>
        /\ SeqNames(res.this) = SeqNames(sig)
        /\ SeqNames(res.trace) = SeqNames(sig)
        /\ \A i \in DOMAIN sig :
              /\ res.trace[i].arg = Given(i)
              /\ res.trace[i].this = SubSeq(res.this, 1, i - 1)
              /\ res.this[i].value = Validated(i, Given(i), SubSeq(res.this, 1, i - 1))
              /\ sig[i].annotation.inner = "any"
                    => \A k \in DOMAIN res.this[i].value : res.this[i].value[k] # "raw"

\* a node whose second or later field was left out, took its default and
\* was coerced by its validator
C4_Witness ==
    /\ pc = "node"
    /\ \E i \in DOMAIN sig :
          /\ i > 1
          /\ NotPassed(i)
          /\ sig[i].default = Scalar("raw")
          /\ res.this[i].value = Scalar("ok")
          /\ res.trace[i].this # <<>>

ParamNames == {sig[i].name : i \in DOMAIN sig}

HasVariadic == \E i \in DOMAIN sig : sig[i].kind = VAR_POSITIONAL

\* mandatory fields the call does not pass
Missing ==
    {sig[i].name : i \in {j \in DOMAIN sig :
        sig[j].default = EMPTY /\ sig[j].kind # VAR_POSITIONAL /\ NotPassed(j)}}

\* keywords that name no field
Unrecognized ==
    {call.kwargs[i].name : i \in DOMAIN call.kwargs} \ ParamNames

\* more positional arguments than positional fields, and no variadic field
Surplus ==
    /\ ~HasVariadic
    /\ Len(call.args) >
          Cardinality({i \in DOMAIN sig : sig[i].kind = POSITIONAL_OR_KEYWORD})

\* fields whose validator rejects the value the call gives them
RejectedFields ==
    {sig[i].name : i \in {j \in DOMAIN sig :
        /\ sig[j].annotation.wrap # "nil"
        /\ ~CallValidator(sig[j].annotation, Given(j), <<>>).ok}}

Called == pc \in {"node", "error", "unbound", "copied"}

\* the three cases make validate fail and yield no field map
C5_Fails ==
    (Called /\ (Missing \cup Unrecognized \cup RejectedFields # {} \/ Surplus))
        => res.status # "ok" /\ res.this = <<>>

\* C5: validate fails with an error that identifies the offending field,
\* and yields no field map, when a validator rejects its value, when an
\* unrecognized keyword or a surplus positional argument is passed, or when
\* a mandatory field is missing. (A surplus positional argument belongs to
\* no field: there the error need name none.)
C5_ErrorIdentifiesField ==
    (Called /\ (Missing \cup Unrecognized \cup RejectedFields # {} \/ Surplus))
        => /\ res.status # "ok"
           /\ res.this = <<>>
           /\ ~Surplus => res.field \in ParamNames \cup Unrecognized

\* the arguments unbind emits: keywords only, unless a field is variadic,
\* and then the fields before it and its values by position
UnbindShape ==
    IF ~HasVariadic
    THEN unb.args = <<>> /\ unb.kwargs = res.this
    ELSE LET v == CHOOSE i \in DOMAIN sig : sig[i].kind = VAR_POSITIONAL
         IN  /\ unb.args = Values(SubSeq(res.this, 1, v - 1))
                              \o Elements(res.this[v].value)
             /\ unb.kwargs = SubSeq(res.this, v + 1, Len(res.this))

RECURSIVE IsSubtype(_, _)
IsSubtype(type, ancestor) ==
    \/ type = ancestor
    \/ \E i \in DOMAIN Bases(type) : IsSubtype(Bases(type)[i], ancestor)

RegisteredAncestors(type) == {u \in DOMAIN Registry : IsSubtype(type, u)}

Translated == op # NoNode

\* C7: translate(node) enters the rule registered for the node's own type
\* and, when it has none, the rule of the nearest ancestor that has one (the
\* registered ancestor every other registered ancestor is an ancestor of); a
\* Unary subtype that is not registered and not a StringUnary enters unary.
C7_NearestRegistered ==
    Translated =>
       /\ \E u \in RegisteredAncestors(op.type) :
             /\ \A v \in RegisteredAncestors(op.type) : IsSubtype(u, v)
             /\ expr.rule = Registry[u]
       /\ (/\ op.type \notin DOMAIN Registry
           /\ IsSubtype(op.type, "Unary")
           /\ ~IsSubtype(op.type, "StringUnary")) => expr.rule = "unary"

C7_Witness ==
    /\ op.type = "TypeOf"
    /\ expr.rule = "unary"
    /\ Depth(op) = MaxDepth

\* the messages are kept as lists of pieces: a name is in the message when
\* it is one of the pieces
NamesType(message, type) == \E i \in DOMAIN message : message[i] = type

BackendName == "polars"

NamesBackend(message) == \E i \in DOMAIN message : message[i] = BackendName

OnlyRootRule(type) == RegisteredAncestors(type) = {"Node"}

\* C8 as stated: a node whose only registered ancestor is the root Node fails
\* with OperationNotDefinedError, and the error names the node's concrete type
\* and the backend.
C8_NamesTypeAndBackend ==
    (Translated /\ OnlyRootRule(op.type)) =>
       /\ expr.status = "OperationNotDefinedError"
       /\ NamesType(expr.message, op.type)
       /\ NamesBackend(expr.message)

\* C8: a node whose only registered ancestor is the root Node fails with
\* OperationNotDefinedError, raised by the catch-all rule; the error names the
\* node's concrete type, and it does not name the backend.
C8_NamesTypeOnly ==
    (Translated /\ OnlyRootRule(op.type)) =>
       /\ expr.status = "OperationNotDefinedError"
       /\ expr.rule = "operation"
       /\ NamesType(expr.message, op.type)
       /\ ~NamesBackend(expr.message)

C8_Witness ==
    /\ op.type = "Hash"
    /\ op.args[1].type = "Abs"
    /\ expr.status = "OperationNotDefinedError"

(***************************************************************************)
(* Properties of the SQL text rules                                        *)
(***************************************************************************)
SubstringText(arg, start, length) ==
    IF length = NoneNode
    THEN "substr(" \o SqlTranslate(arg) \o ", " \o SqlTranslate(start) \o " + 1)"
    ELSE "substr(" \o SqlTranslate(arg) \o ", " \o SqlTranslate(start)
            \o " + 1, " \o SqlTranslate(length) \o ")"

\* C9: a Substring node renders to substr(arg, start + 1, length) whenever a
\* length is given, a literal of any value or a computed one, and to
\* substr(arg, start + 1) only when the length is absent.
C9_SubstringAddsOne ==
    op.type = "Substring" =>
       /\ expr.status = "ok"
       /\ expr.value = SubstringText(op.args[1], op.args[2], op.args[3])

LocateText(arg, substr, start) ==
    IF start = NoneNode
    THEN "locate(" \o SqlTranslate(substr) \o ", " \o SqlTranslate(arg) \o ") - 1"
    ELSE IF IsLiteral(start)
    THEN "locate(" \o SqlTranslate(substr) \o ", " \o SqlTranslate(arg)
            \o ", " \o Str(start.value + 1) \o ") - 1"
    ELSE "locate(" \o SqlTranslate(substr) \o ", " \o SqlTranslate(arg)
            \o ", " \o SqlTranslate(start) \o " + 1) - 1"

\* C10: a StringFind node renders, whatever its start, to a text of the form
\* locate(...) - 1, the start given to locate being the node's start plus 1:
\* folded into the number for a literal, written start + 1 for a computed one.
C10_FindSubtractsOne ==
    op.type = "StringFind" =>
       /\ expr.status = "ok"
       /\ expr.value = LocateText(op.args[1], op.args[2], op.args[3])


(***************************************************************************)
(* Properties of the relation rules                                        *)
(***************************************************************************)
IsJoin == op.type \in DOMAIN JoinTypes

\* the rendering of the columns on one side of the predicates
SideKeys(predicates, side) ==
    [i \in DOMAIN predicates |-> Translate(predicates[i].args[side]).value]

\* C11: a Right join with equality predicates renders as a left join of the
\* right relation with the left one, the columns of the IR's right relation
\* being the left keys and those of its left relation the right keys; every
\* other kind keeps the order of the operands and of the key lists.
C11_RightJoinSwapsKeys ==
    (IsJoin /\ expr.status = "ok") =>
       IF op.type = "RightJoin"
       THEN /\ expr.value.how = "left"
            /\ expr.value.left = TranslateSource(op.right).value
            /\ expr.value.right = TranslateSource(op.left).value
            /\ expr.value.left_on = SideKeys(op.predicates, 2)
            /\ expr.value.right_on = SideKeys(op.predicates, 1)
       ELSE /\ expr.value.how = JoinTypes[op.type]
            /\ expr.value.left = TranslateSource(op.left).value
            /\ expr.value.right = TranslateSource(op.right).value
            /\ expr.value.left_on = SideKeys(op.predicates, 1)
            /\ expr.value.right_on = SideKeys(op.predicates, 2)

\* C12: a Join with a predicate that is not an equality, at any position,
\* fails with TranslationError and emits no join; with equalities only, the
\* i-th left key and the i-th right key come from the i-th predicate.
C12_JoinPredicates ==
    IsJoin =>
       IF \E i \in DOMAIN op.predicates : op.predicates[i].type # "Equals"
       THEN /\ expr.status = "TranslationError"
            /\ expr.value = <<>>
       ELSE /\ expr.status = "ok"
            /\ Len(expr.value.left_on) = Len(op.predicates)
            /\ Len(expr.value.right_on) = Len(op.predicates)
            /\ \A i \in DOMAIN op.predicates :
                  /\ expr.value.left_on[i] = Translate(op.predicates[i].args[1]).value
                  /\ expr.value.right_on[i] = Translate(op.predicates[i].args[2]).value

C12_Witness ==
    /\ IsJoin
    /\ Len(op.predicates) = MaxPreds
    /\ op.predicates[1].type = "Equals"
    /\ op.predicates[MaxPreds].type = "Less"
    /\ expr.status = "TranslationError"


IsSelection == op.type = "Selection"

\* a selection element that is neither a relation nor a value expression
BadSelection(arg) == ~IsSubtype(arg.type, "TableNode") /\ ~IsSubtype(arg.type, "Value")

\* the columns a list of selection elements stands for
RECURSIVE Projection(_)
Projection(args) ==
    IF args = <<>> THEN <<>>
    ELSE LET arg == Head(args)
         IN  (IF arg.type = "DatabaseTable"
              THEN [k \in DOMAIN arg.schema |-> <<"pl.col(", arg.schema[k], ")">>]
              ELSE <<Translate(arg).value>>) \o Projection(Tail(args))

\* C13: a Selection renders as filter, then project, then sort: the AND of
\* the predicates filters the source, the projection is applied to the filtered
\* relation and the sort to the projected one; a step with an empty list is
\* skipped; an element of the selections that is neither a relation nor a
\* value makes the translation fail with TranslationError.
C13_FilterProjectSort ==
    IsSelection =>
       IF \E i \in DOMAIN op.selections : BadSelection(op.selections[i])
       THEN expr.status = "TranslationError" /\ expr.value = <<>>
       ELSE LET source == TranslateSource(op.table).value
                filtered ==
                    IF op.predicates = <<>> THEN source
                    ELSE [rel |-> "filter", source |-> source,
                          predicate |-> ReduceAnd([i \in DOMAIN op.predicates |->
                                              Translate(op.predicates[i]).value])]
                projected ==
                    IF op.selections = <<>> THEN filtered
                    ELSE [rel |-> "select", source |-> filtered,
                          columns |-> Projection(op.selections)]
                sorted ==
                    IF op.sort_keys = <<>> THEN projected
                    ELSE [rel |-> "sort", source |-> projected,
                          by |-> [i \in DOMAIN op.sort_keys |-> op.sort_keys[i].name],
                          reverse |-> [i \in DOMAIN op.sort_keys |->
                                          op.sort_keys[i].descending]]
            IN  expr.status = "ok" /\ expr.value = sorted

C13_Witness ==
    /\ IsSelection
    /\ expr.status = "ok"
    /\ expr.value.rel = "sort"
    /\ expr.value.source.rel = "select"
    /\ expr.value.source.source.rel = "filter"
    /\ Len(op.predicates) = MaxPreds
    /\ op.selections[1].type = "DatabaseTable"


IsAggregation == op.type = "Aggregation"

RenderAll(nodes) == [i \in DOMAIN nodes |-> Translate(nodes[i]).value]

\* the relation an aggregation stands for
AggregationRelation(node) ==
    LET source == TranslateSource(node.table).value
        filtered == IF node.predicates = <<>> THEN source
                    ELSE [rel |-> "filter", source |-> source,
                          predicate |-> ReduceAnd(RenderAll(node.predicates))]
    IN  IF node.by # <<>>
        THEN [rel |-> "agg",
              source |-> [rel |-> "groupby", source |-> filtered,
                          by |-> RenderAll(node.by)],
              metrics |-> RenderAll(node.metrics)]
        ELSE [rel |-> "select", source |-> filtered,
              columns |-> RenderAll(node.metrics)]

\* C14: an Aggregation, whatever lists of predicates, grouping keys and
\* metrics are empty, renders as a relation: the source filtered by the AND of
\* the predicates, then the metrics reduced by the grouping keys when there
\* are some, and over the whole relation when there are none.
C14_AggregationIsRelation ==
    IsAggregation =>
       /\ expr.status = "ok"
       /\ expr.value = AggregationRelation(op)


(***************************************************************************)
(* Properties of the case rules                                            *)
(***************************************************************************)
\* the values the column of a row may hold
RowValues == 0..MaxLit

\* the number a rendered literal stands for
LitValue(token) == CHOOSE n \in 0..9 : Str(n) = token

\* the value of a rendered column or literal on a row whose column holds x
EvalLeaf(leaf, x) == IF leaf[1] = "pl.col(" THEN x ELSE LitValue(leaf[2])

\* the truth of a rendered comparison of two leaves, ( leaf operator leaf )
EvalCondition(tokens, x) ==
    LET left == EvalLeaf(SubSeq(tokens, 2, 4), x)
        right == EvalLeaf(SubSeq(tokens, 6, 8), x)
    IN  IF tokens[5] = "==" THEN left = right ELSE left < right

\* the value of a when/then/otherwise cascade over leaves
RECURSIVE Eval(_, _)
Eval(rendering, x) ==
    IF rendering[1] = "when"
    THEN IF EvalCondition(rendering[2], x) THEN Eval(rendering[3], x)
         ELSE Eval(rendering[4], x)
    ELSE EvalLeaf(rendering, x)

\* whether the i-th condition of the node holds on the row
Holds(node, i, x) ==
    IF node.type = "SimpleCase" THEN node.cases[i].value = x
    ELSE IF node.cases[i].type = "Equals" THEN x = node.cases[i].args[2].value
    ELSE x < node.cases[i].args[2].value

IsCase == op.type \in {"SimpleCase", "SearchedCase"}

\* C15: the cascade a SimpleCase or a SearchedCase renders to evaluates, on
\* every row, to the result of the first pair in declaration order whose
\* condition holds (whose case equals the base), and to the default when none
\* holds.
C15_FirstMatchWins ==
    IsCase =>
       /\ expr.status = "ok"
       /\ \A x \in RowValues :
             LET hits == {i \in DOMAIN op.cases : Holds(op, i, x)}
                 first == CHOOSE i \in hits : \A j \in hits : i <= j
             IN  Eval(expr.value, x) = IF hits = {} THEN op.default.value
                                       ELSE op.results[first].value

\* two pairs with different results whose conditions hold on the same row
C15_Witness ==
    /\ IsCase
    /\ expr.status = "ok"
    /\ Len(op.cases) = MaxCases
    /\ op.results[1] # op.results[MaxCases]
    /\ \E x \in RowValues : Holds(op, 1, x) /\ Holds(op, MaxCases, x)
    /\ \E x \in RowValues : \A i \in DOMAIN op.cases : ~Holds(op, i, x)


(***************************************************************************)
(* Properties of the literal-only fields                                   *)
(***************************************************************************)
HasLiteralFields == op.type \in {"Substring", "LPad"}

\* the values of the node's literal-only fields, in the order of the checks
LiteralFields == <<op.args[2], op.args[3]>>

\* C16: a rule with literal-only fields fails with UnsupportedArgumentError,
\* and returns no rendering, when a value reaching a literal check is not a
\* Literal node, be it a computed expression or an optional argument left
\* absent; it proceeds only when every such value is a Literal node.
C16_LiteralOnly ==
    HasLiteralFields =>
       IF \E i \in DOMAIN LiteralFields : ~IsLiteral(LiteralFields[i])
       THEN expr.status = "UnsupportedArgumentError" /\ expr.value = <<>>
       ELSE expr.status = "ok"


IsDropNa == op.type = "DropNa"

\* what dropna does with how = 'any': an absent subset drops the rows with a
\* null in any column, an empty one returns the source, a non-empty one
\* tests the named columns; an error of the source propagates
DropNaAny ==
    LET source == TranslateSource(op.table)
    IN  IF source.status # "ok"
        THEN expr.status = source.status /\ expr.message = source.message
        ELSE /\ expr.status = "ok"
             /\ IF op.subset.none
                THEN expr.value = [rel |-> "drop_nulls", source |-> source.value,
                                   none |-> TRUE, names |-> <<>>]
                ELSE IF op.subset.columns = <<>> THEN expr.value = source.value
                ELSE expr.value =
                        [rel |-> "drop_nulls", source |-> source.value,
                         none |-> FALSE,
                         names |-> [i \in DOMAIN op.subset.columns |->
                                       op.subset.columns[i].name]]

\* C17 as stated: a DropNa with a how other than 'any' fails with
\* TranslationError before its source is translated; with how = 'any' the
\* subset decides the null test.
C17_UnsupportedHowTranslationError ==
    IsDropNa =>
       IF op.how # "any"
       THEN expr.status = "TranslationError" /\ expr.rule = "dropna"
       ELSE DropNaAny

\* C17: a DropNa with a how other than 'any' fails with
\* UnsupportedArgumentError, raised by dropna before its source is translated
\* (also when the source has no rule); with how = 'any' the subset decides the
\* null test.
C17_UnsupportedHow ==
    IsDropNa =>
       IF op.how # "any"
       THEN /\ expr.status = "UnsupportedArgumentError"
            /\ expr.rule = "dropna"
            /\ expr.value = <<>>
       ELSE DropNaAny

\* an unsupported how on a source whose own translation would fail
C17_Witness ==
    /\ IsDropNa
    /\ op.how = "all"
    /\ TranslateSource(op.table).status = "OperationNotDefinedError"
    /\ expr.status = "UnsupportedArgumentError"


(***************************************************************************)
(* Properties of translation as a whole                                    *)
(***************************************************************************)
IsSqlString == op.type \in {"Substring", "StringFind"}

\* C18: translate on the root either returns a real rendering, never an
\* absent (None) result, or raises and returns nothing.
C18_AllOrNothing ==
    IsSqlString =>
       \/ expr.status = "ok" /\ expr.value # ""
       \/ expr.status \notin {"ok", "None"} /\ expr.value = ""

(***************************************************************************)
(* Properties of the list Signature.merge builds                           *)
(***************************************************************************)
IsPositional(param) == param.kind = POSITIONAL_OR_KEYWORD

\* no positional field after a variadic or keyword-only one, at most one
\* variadic field, no mandatory positional field after an optional one
WellFormed(params) ==
    /\ \A i, j \in DOMAIN params :
          (i < j /\ ~IsPositional(params[i])) => ~IsPositional(params[j])
    /\ \A i, j \in DOMAIN params :
          (params[i].kind = VAR_POSITIONAL /\ params[j].kind = VAR_POSITIONAL) => i = j
    /\ \A i, j \in DOMAIN params :
          (/\ i < j
           /\ IsPositional(params[i]) /\ params[i].default # EMPTY
           /\ IsPositional(params[j])) => params[j].default # EMPTY

\* C19: for every parent signature and every child body, the list merge
\* builds is a well-formed parameter list, and merge returns a signature: it
\* never fails on an ill-ordered list.
C19_MergeNeverIllOrdered ==
    stage = "child" =>
       /\ WellFormed(last.ordered)
       /\ last.status = "ok"


(***************************************************************************)
(* Properties of the table-driven rules                                    *)
(***************************************************************************)
TableDriven == {"unary", "string_unary", "comparison", "binop", "reduction"}

\* the node types a table-driven rule has an entry for
Entries(rule) ==
    CASE rule = "unary" -> DOMAIN UnaryTable
      [] rule = "string_unary" -> DOMAIN StringUnaryTable
      [] rule = "comparison" -> DOMAIN ComparisonTable
      [] rule = "binop" -> DOMAIN BinopTable
      [] rule = "reduction" -> DOMAIN ReductionTable

\* the node was given to a table-driven rule that has no entry for its
\* type, its children translating without error
MissingEntry ==
    /\ Translated
    /\ expr.rule \in TableDriven
    /\ op.type \notin Entries(expr.rule)
    /\ \A i \in DOMAIN op.args : Translate(op.args[i]).status = "ok"

\* C20: a node that falls back to a table-driven rule with no entry for its
\* type fails with OperationNotDefinedError naming the node type, as a node
\* with no rule does, and with no other kind of error.
C20_MissingEntryNotDefined ==
    MissingEntry =>
       /\ expr.status = "OperationNotDefinedError"
       /\ NamesType(expr.message, op.type)


(***************************************************************************)
(* Properties of the prefix and suffix tests                               *)
(***************************************************************************)
\* a StartsWith or EndsWith node whose prefix or suffix is a literal
IsAffixTest == op.type \in {"StartsWith", "EndsWith"} /\ IsLiteral(op.args[2])

\* the same argument and the same literal under the other node type
Counterpart ==
    MakeNode(IF op.type = "StartsWith" THEN "EndsWith" ELSE "StartsWith",
             op.name, op.value, op.args)

\* the engine's test on the translated argument
EngineTest(method) ==
    Translate(op.args[1]).value
       \o <<".str.", method, "(", Str(op.args[2].value), ")">>

\* C21: a StartsWith node with a literal prefix renders to the engine's
\* starts-with test on it, an EndsWith node with a literal suffix to its
\* ends-with test, and for the same argument and literal the two node types
\* do not render alike.
C21_StartsAndEndsDiffer ==
    IsAffixTest =>
       /\ expr.status = "ok"
       /\ expr.value = EngineTest(IF op.type = "StartsWith" THEN "starts_with"
                                  ELSE "ends_with")
       /\ expr.value # TranslateString(Counterpart).value

====
